---- MODULE Spec2Model ----
(***************************************************************************)
(* The memory graph of Neko-assistant: the SQLite store of keywords,       *)
(* message blocks and relations (memory/sqlite_memory_manager.py), the     *)
(* relevance ranking (memory/utils.py), the bounded extraction retry       *)
(* (llm/utils.py) and the ingestion and retrieval pipelines (run.py).      *)
(*                                                                         *)
(* Text is a sequence of one-token strings, so that joins, splits, number  *)
(* formatting and fuzzy scores are computed and not assumed.  A table is   *)
(* the sequence of its rows in insertion (rowid) order.                     *)
(***************************************************************************)
EXTENDS Integers, Sequences, FiniteSets, TLC

VARIABLES keywords, message_blocks, relations, now, runs, last

vars == <<keywords, message_blocks, relations, now, runs, last>>

store == <<keywords, message_blocks, relations>>

(***************************************************************************)
(* Bounds of the model.                                                    *)
(***************************************************************************)
MaxRuns == 2
MaxPairs == 2
MaxTime == 1
MaxKeywords == 2

(***************************************************************************)
(* Program constants.                                                      *)
(***************************************************************************)
max_retry == 3
LexicalThreshold == 70
SemanticThresholdNum == 1
SemanticThresholdDen == 2
\* ranks[:2], a ranking cut that keeps two relations: the variant the one-line property rules out
TopTwo == 1 + 1
\* ranks[:1]
TopK == 1

MESSAGE_SEPERATOR == "<message seperator>"
NEWLINE == "\n"

(***************************************************************************)
(* Generic sequence helpers.                                               *)
(***************************************************************************)
Range(s) == {s[i] : i \in DOMAIN s}

SeqsUpTo(S, n) == UNION {[1..k -> S] : k \in 0..n}

\* The orderings (lists without repetition) of all elements of a finite set.
Orderings(S) == {f \in [1..Cardinality(S) -> S] : \A i, j \in 1..Cardinality(S) : f[i] = f[j] => i = j}

RECURSIVE Concat(_)
Concat(ss) == IF ss = <<>> THEN <<>> ELSE Head(ss) \o Concat(Tail(ss))

RECURSIVE Count(_, _)
Count(text, tok) == IF text = <<>> THEN 0 ELSE (IF Head(text) = tok THEN 1 ELSE 0) + Count(Tail(text), tok)

\* sep.join(parts)
RECURSIVE Join(_, _)
Join(parts, sep) ==
  IF parts = <<>> THEN <<>>
  ELSE IF Len(parts) = 1 THEN parts[1]
  ELSE parts[1] \o <<sep>> \o Join(Tail(parts), sep)

\* text.split(sep): always at least one part, the empty text gives one empty part
RECURSIVE SplitFrom(_, _, _)
SplitFrom(text, sep, cur) ==
  IF text = <<>> THEN <<cur>>
  ELSE IF Head(text) = sep THEN <<cur>> \o SplitFrom(Tail(text), sep, <<>>)
  ELSE SplitFrom(Tail(text), sep, Append(cur, Head(text)))

Split(text, sep) == SplitFrom(text, sep, <<>>)

(***************************************************************************)
(* Number formatting and parsing: str(n) and float(s) on decimal digits.   *)
(***************************************************************************)
DigitChars == <<"0", "1", "2", "3", "4", "5", "6", "7", "8", "9">>

RECURSIVE Str(_)
Str(n) == IF n < 10 THEN <<DigitChars[n + 1]>> ELSE Str(n \div 10) \o <<DigitChars[(n % 10) + 1]>>

DigitValue(c) == CHOOSE d \in 0..9 : DigitChars[d + 1] = c

RECURSIVE ParseNumber(_, _)
ParseNumber(s, acc) == IF s = <<>> THEN acc ELSE ParseNumber(Tail(s), 10 * acc + DigitValue(Head(s)))

Float(s) == ParseNumber(s, 0)

\* datetime.now().strftime("%Y-%m-%dT%H:%M:%S"): one text per second of the clock
Strftime(t) == Str(t)

(***************************************************************************)
(* Embedding columns: ",".join(map(str, v)) if v else "" and back.         *)
(***************************************************************************)
_serialize_embeddings(embeddings) ==
  IF embeddings = <<>> THEN <<>>
  ELSE Join([i \in DOMAIN embeddings |-> Str(embeddings[i])], ",")

\* decoding without the empty-string case: the variant the round-trip property rules out
_deserialize_unguarded(embeddings_str) ==
  LET parts == Split(embeddings_str, ",")
  IN [i \in DOMAIN parts |-> Float(parts[i])]

_deserialize_embeddings(embeddings_str) ==
  IF embeddings_str = <<>> THEN <<>>
  ELSE LET parts == Split(embeddings_str, ",")
       IN [i \in DOMAIN parts |-> Float(parts[i])]

(***************************************************************************)
(* The records handed to and returned by the store (memory_manager.py).    *)
(***************************************************************************)
KeywordNode(keyword_id, keyword, content, embeddings) ==
  [node_id |-> keyword_id, content |-> content, keyword |-> keyword, embeddings |-> embeddings]

\* content is the messages joined by the separator
MessageBlock(block_id, messages, timestamp, title, embeddings) ==
  [node_id |-> block_id, content |-> Join(messages, MESSAGE_SEPERATOR), messages |-> messages,
   timestamp |-> timestamp, title |-> title, embeddings |-> embeddings]

RelationEdge(relation_id, source, target, relation_type, relation_desc, embeddings) ==
  [relation_id |-> relation_id, source |-> source, target |-> target,
   relation_type |-> relation_type, relation_desc |-> relation_desc, embeddings |-> embeddings]

(***************************************************************************)
(* The three tables: INSERT OR IGNORE on the primary key.                  *)
(***************************************************************************)
HasKeyword(tbl, id) == \E i \in DOMAIN tbl : tbl[i].keyword_id = id
HasBlock(tbl, id) == \E i \in DOMAIN tbl : tbl[i].block_id = id
HasRelation(tbl, id) == \E i \in DOMAIN tbl : tbl[i].relation_id = id

KeywordRow(keyword) ==
  [keyword_id |-> keyword.node_id, content |-> keyword.content, keyword |-> keyword.keyword,
   embeddings |-> _serialize_embeddings(keyword.embeddings)]

BlockRow(message_block) ==
  [block_id |-> message_block.node_id, title |-> message_block.title,
   messages |-> message_block.content, timestamp |-> message_block.timestamp,
   embeddings |-> _serialize_embeddings(message_block.embeddings)]

RelationRow(relation) ==
  [relation_id |-> relation.relation_id, source |-> relation.source, target |-> relation.target,
   relation_type |-> relation.relation_type, relation_desc |-> relation.relation_desc,
   embeddings |-> _serialize_embeddings(relation.embeddings)]

\* INSERT OR REPLACE, the overwriting variant the insert-if-absent property rules out
add_keyword_replace(tbl, keyword) ==
  IF HasKeyword(tbl, keyword.node_id)
  THEN [i \in DOMAIN tbl |-> IF tbl[i].keyword_id = keyword.node_id THEN KeywordRow(keyword) ELSE tbl[i]]
  ELSE Append(tbl, KeywordRow(keyword))

add_keyword(tbl, keyword) ==
  IF HasKeyword(tbl, keyword.node_id) THEN tbl ELSE Append(tbl, KeywordRow(keyword))

add_message_block(tbl, message_block) ==
  IF HasBlock(tbl, message_block.node_id) THEN tbl ELSE Append(tbl, BlockRow(message_block))

\* INSERT OR REPLACE of a relation: the variant the append-only property rules out
add_relation_replace(tbl, relation) ==
  IF HasRelation(tbl, relation.relation_id)
  THEN [i \in DOMAIN tbl |-> IF tbl[i].relation_id = relation.relation_id THEN RelationRow(relation) ELSE tbl[i]]
  ELSE Append(tbl, RelationRow(relation))

add_relation(tbl, relation) ==
  IF HasRelation(tbl, relation.relation_id) THEN tbl ELSE Append(tbl, RelationRow(relation))

link_messages(tbl, relation) == add_relation(tbl, relation)

\* Row -> object conversions of the getters
KeywordOfRow(row) == KeywordNode(row.keyword_id, row.keyword, row.content, _deserialize_embeddings(row.embeddings))

RelationOfRow(row) ==
  RelationEdge(row.relation_id, row.source, row.target, row.relation_type, row.relation_desc,
               _deserialize_embeddings(row.embeddings))

BlockOfRow(row) ==
  MessageBlock(row.block_id, Split(row.messages, MESSAGE_SEPERATOR), row.timestamp, row.title,
               _deserialize_embeddings(row.embeddings))

\* a getter that answers a missing id with an empty record: the variant the not-found property rules out
get_keyword_default(tbl, keyword_id) ==
  IF HasKeyword(tbl, keyword_id)
  THEN [raises |-> FALSE,
        node |-> KeywordOfRow(tbl[CHOOSE i \in DOMAIN tbl : tbl[i].keyword_id = keyword_id])]
  ELSE [raises |-> FALSE, node |-> KeywordNode(keyword_id, <<>>, <<>>, <<>>)]

\* get_keyword: the record, or ValueError when no row has the id
get_keyword(tbl, keyword_id) ==
  IF HasKeyword(tbl, keyword_id)
  THEN [raises |-> FALSE,
        node |-> KeywordOfRow(tbl[CHOOSE i \in DOMAIN tbl : tbl[i].keyword_id = keyword_id])]
  ELSE [raises |-> TRUE, node |-> <<>>]

\* get_message_block: the record, or ValueError when no row has the id
get_message_block(tbl, block_id) ==
  IF HasBlock(tbl, block_id)
  THEN [raises |-> FALSE,
        node |-> BlockOfRow(tbl[CHOOSE i \in DOMAIN tbl : tbl[i].block_id = block_id])]
  ELSE [raises |-> TRUE, node |-> <<>>]

\* WHERE source = ? alone: the variant the both-endpoints property rules out
get_relation_by_source(tbl, node_id) ==
  LET hits == SelectSeq(tbl, LAMBDA row : row.source = node_id)
  IN [i \in DOMAIN hits |-> RelationOfRow(hits[i])]

\* SELECT * FROM relations WHERE source = ? OR target = ?, in table order
get_relation_by_node(tbl, node_id) ==
  LET hits == SelectSeq(tbl, LAMBDA row : row.source = node_id \/ row.target = node_id)
  IN [i \in DOMAIN hits |-> RelationOfRow(hits[i])]

\* SELECT * FROM keywords WHERE keyword_id IN (ids): the rows come in an order
\* the query does not fix, so every ordering of the selected rows is possible.
SelectKeywordsIn(tbl, ids) ==
  LET hit == {i \in DOMAIN tbl : tbl[i].keyword_id \in ids}
  IN {[j \in DOMAIN o |-> KeywordOfRow(tbl[o[j]])] : o \in Orderings(hit)}

(***************************************************************************)
(* rapidfuzz.fuzz.ratio: 100 * 2 * LCS / (len1 + len2), 100 for two empty  *)
(* texts.  Scores are compared with the threshold without dividing.        *)
(***************************************************************************)
Max2(a, b) == IF a >= b THEN a ELSE b

RECURSIVE LCS(_, _)
LCS(a, b) ==
  IF a = <<>> \/ b = <<>> THEN 0
  ELSE IF Head(a) = Head(b) THEN 1 + LCS(Tail(a), Tail(b))
  ELSE Max2(LCS(Tail(a), b), LCS(a, Tail(b)))

ScoreAtLeast(s1, s2, threshold) ==
  IF Len(s1) + Len(s2) = 0 THEN 100 >= threshold
  ELSE 200 * LCS(s1, s2) >= threshold * (Len(s1) + Len(s2))

\* keyword_dict = {row[1]: row[0] for row in rows}: a later row with the same
\* label replaces the id kept for that label
KeywordDictId(tbl, label) ==
  LET last_i == CHOOSE i \in DOMAIN tbl :
                  /\ tbl[i].keyword = label
                  /\ \A j \in DOMAIN tbl : tbl[j].keyword = label => j <= i
  IN tbl[last_i].keyword_id

\* the search that scores the empty query like any other: the variant the empty-query property rules out
search_keywords_scoring(tbl, query, threshold) ==
  IF Len(tbl) = 0 THEN {<<>>}
  ELSE LET labels == {tbl[i].keyword : i \in DOMAIN tbl}
           filtered_matches == {l \in labels : ScoreAtLeast(query, l, threshold)}
           matching_ids == {KeywordDictId(tbl, l) : l \in filtered_matches}
       IN SelectKeywordsIn(tbl, matching_ids)

\* search_keywords: the set of lists the call can return
search_keywords(tbl, query, threshold) ==
  IF query = <<>> THEN {[i \in DOMAIN tbl |-> KeywordOfRow(tbl[i])]}
  ELSE IF Len(tbl) = 0 THEN {<<>>}
  ELSE LET labels == {tbl[i].keyword : i \in DOMAIN tbl}
           filtered_matches == {l \in labels : ScoreAtLeast(query, l, threshold)}
           matching_ids == {KeywordDictId(tbl, l) : l \in filtered_matches}
       IN SelectKeywordsIn(tbl, matching_ids)

(***************************************************************************)
(* Vector math (memory/utils.py).  A similarity is kept exactly, as the    *)
(* signed square of the cosine, num / den with den > 0: the map            *)
(* x -> sign(x) * x * x is increasing, so comparing signed squares         *)
(* compares the cosines.  Dividing a zero row by its zero norm gives nan.  *)
(***************************************************************************)
RECURSIVE Dot(_, _)
Dot(a, b) == IF a = <<>> \/ b = <<>> THEN 0 ELSE Head(a) * Head(b) + Dot(Tail(a), Tail(b))

SignedSquare(x) == IF x >= 0 THEN x * x ELSE 0 - (x * x)

NaN == [nan |-> TRUE, num |-> 0, den |-> 1]

Similarity(query_vector, item) ==
  IF Dot(item, item) = 0 THEN NaN
  ELSE IF Dot(query_vector, query_vector) = 0 THEN [nan |-> FALSE, num |-> 0, den |-> 1]
  ELSE [nan |-> FALSE, num |-> SignedSquare(Dot(item, query_vector)),
        den |-> Dot(item, item) * Dot(query_vector, query_vector)]

\* a >= b on floats: false as soon as one side is nan
SimGE(a, b) == ~a.nan /\ ~b.nan /\ a.num * b.den >= b.num * a.den

\* similarity >= threshold, the threshold given as the fraction tnum / tden
SimAtLeast(a, tnum, tden) == SimGE(a, [nan |-> FALSE, num |-> SignedSquare(tnum), den |-> tden * tden])

\* the reverse order, least similar first: the variant the best-relation property rules out
SortsAfter(a, b) == IF a.nan THEN TRUE ELSE ~b.nan /\ SimGE(a, b)

\* the order of np.argsort: ascending, nan after every number
SortsBefore(a, b) == IF b.nan THEN TRUE ELSE ~a.nan /\ SimGE(b, a)

\* np.array / the matrix product raise when the rows and the query differ in length
RelevanceRaises(query_embeddings, items_embeddings) ==
  \E i \in DOMAIN items_embeddings : Len(items_embeddings[i]) # Len(query_embeddings)

Similarities(query_embeddings, items_embeddings) ==
  [i \in DOMAIN items_embeddings |-> Similarity(query_embeddings, items_embeddings[i])]

\* np.argsort(similarities)[::-1]: the index lists in descending order of
\* similarity; the sort is not stable, so equal similarities come in any order
SortedIndices(similarities) ==
  {o \in Orderings(DOMAIN similarities) :
     \A i, j \in DOMAIN o : i < j => SortsBefore(similarities[o[j]], similarities[o[i]])}

\* sort_items_by_relevance: the set of (similarities, sorted_indices) it can return
sort_items_by_relevance(query_embeddings, items_embeddings) ==
  LET similarities == Similarities(query_embeddings, items_embeddings)
  IN {[similarities |-> similarities, ranks |-> o] : o \in SortedIndices(similarities)}

\* matching_ids = [rows[ranks[i]][0] for i in range(len(similarities)) if similarities[i] >= threshold]
MatchingIds(tbl, similarities, ranks, tnum, tden) ==
  {tbl[ranks[i]].keyword_id : i \in {j \in DOMAIN similarities : SimAtLeast(similarities[j], tnum, tden)}}

\* the search without its check of the query: the variant the empty-query property rules out
search_unvalidated(tbl, embeddings, tnum, tden) ==
  IF Len(tbl) = 0 THEN [raises |-> FALSE, results |-> {<<>>}]
  ELSE LET embeddings_arr == [i \in DOMAIN tbl |-> _deserialize_embeddings(tbl[i].embeddings)]
       IN IF RelevanceRaises(embeddings, embeddings_arr) THEN [raises |-> TRUE, results |-> {}]
          ELSE [raises |-> FALSE,
                results |-> UNION {SelectKeywordsIn(tbl, MatchingIds(tbl, sr.similarities, sr.ranks, tnum, tden)) :
                                     sr \in sort_items_by_relevance(embeddings, embeddings_arr)}]

\* search_keywords_by_embedding: [raises |-> TRUE] or the set of lists it can return
search_keywords_by_embedding(tbl, embeddings, tnum, tden) ==
  IF Len(embeddings) = 0 THEN [raises |-> TRUE, results |-> {}]
  ELSE IF Len(tbl) = 0 THEN [raises |-> FALSE, results |-> {<<>>}]
  ELSE LET embeddings_arr == [i \in DOMAIN tbl |-> _deserialize_embeddings(tbl[i].embeddings)]
       IN IF RelevanceRaises(embeddings, embeddings_arr) THEN [raises |-> TRUE, results |-> {}]
          ELSE [raises |-> FALSE,
                results |-> UNION {SelectKeywordsIn(tbl, MatchingIds(tbl, sr.similarities, sr.ranks, tnum, tden)) :
                                     sr \in sort_items_by_relevance(embeddings, embeddings_arr)}]

(***************************************************************************)
(* The collaborators.  The embedding service is a fixed function of the    *)
(* text; the model's replies are the inputs of a run.                      *)
(***************************************************************************)
\* embedding_model.embed_query(text)
Embed(text) == <<1 + 3 * Count(text, "p"), 1 + 3 * Count(text, "q")>>

KeywordTexts == {<<"a", "b">>, <<"a", "b", "c">>, <<"x">>}
Descriptions == {<<"p">>, <<"q">>}
Pairs == [k : KeywordTexts, v : Descriptions]

\* the mappings a reply can parse to: up to MaxPairs pairs with distinct keys, in insertion order
Dicts == {d \in SeqsUpTo(Pairs, MaxPairs) : \A i, j \in DOMAIN d : d[i].k = d[j].k => i = j}

\* A reply of the model: text without a {...} part, a {...} part that is not
\* JSON, or a JSON object
FailedReplies == {[kind |-> "text", dict |-> <<>>], [kind |-> "badjson", dict |-> <<>>], [kind |-> "dict", dict |-> <<>>]}
DictReplies == {[kind |-> "dict", dict |-> d] : d \in Dicts \ {<<>>}}

\* parse_to_dict: None unless the {...} part decodes
parse_to_dict(output) ==
  IF output.kind = "dict" THEN [none |-> FALSE, dict |-> output.dict] ELSE [none |-> TRUE, dict |-> <<>>]

\* `if rst is not None:`, the test that lets the empty mapping through: the variant the
\* no-block-without-relation property rules out
NotNone(rst) == ~rst.none

\* `if rst:` : None and the empty mapping are both falsy
Truthy(rst) == ~rst.none /\ rst.dict # <<>>

\* generate_summary_dict: outs[i] is the model's reply to the i-th call
RECURSIVE RetryLoop(_, _, _)
RetryLoop(outs, cnt, retries) ==
  IF cnt < retries
  THEN LET rst == parse_to_dict(outs[cnt + 1])
       IN IF Truthy(rst) THEN [none |-> FALSE, dict |-> rst.dict, calls |-> cnt + 1]
          ELSE RetryLoop(outs, cnt + 1, retries)
  ELSE [none |-> TRUE, dict |-> <<>>, calls |-> cnt]

generate_summary_dict(outs) == RetryLoop(outs, 0, max_retry)

\* The reply scripts of a run: some failed replies, then a mapping for every later call
Scripts ==
  {[i \in 1..max_retry |-> IF i <= Len(f) THEN f[i] ELSE r] :
     f \in SeqsUpTo(FailedReplies, max_retry), r \in DictReplies}

(***************************************************************************)
(* add_message (sqlite_memory_manager.py): the block, then every keyword,  *)
(* then every relation, each insert committed on its own connection.       *)
(* `done` is the number of inserts that commit: all of them, or those      *)
(* before the insert at which the storage raises.                          *)
(***************************************************************************)
RECURSIVE AddKeywords(_, _)
AddKeywords(tbl, kws) == IF kws = <<>> THEN tbl ELSE AddKeywords(add_keyword(tbl, Head(kws)), Tail(kws))

RECURSIVE AddRelations(_, _)
AddRelations(tbl, rels) == IF rels = <<>> THEN tbl ELSE AddRelations(link_messages(tbl, Head(rels)), Tail(rels))

Min2(a, b) == IF a <= b THEN a ELSE b

Inserts(kws, rels) == 1 + Len(kws) + Len(rels)

add_message(st, message_block, kws, rels, done) ==
  [keywords |-> AddKeywords(st.keywords, SubSeq(kws, 1, Min2(Len(kws), done - 1))),
   message_blocks |-> IF done >= 1 THEN add_message_block(st.message_blocks, message_block) ELSE st.message_blocks,
   relations |-> AddRelations(st.relations, SubSeq(rels, 1, done - 1 - Len(kws)))]

(***************************************************************************)
(* process_messages_and_save_to_memory (run.py): the loop over the         *)
(* extracted pairs.  found[i] is the list search_keywords returned for the *)
(* i-th key.  acc holds the loop's locals: keywords, relations, cnt.       *)
(***************************************************************************)
\* a node minted under the extracted text with the matched keyword's label: the variant the
\* one-keyword-per-label property rules out
ResolveMatchedMinting(fetched, k, v, key, block_id, acc) ==
  [keywords |-> Append(acc.keywords, KeywordNode(k, key, <<>>, Embed(v))),
   relations |-> Append(fetched, RelationEdge(Str(acc.cnt) \o <<"-">> \o block_id, k, block_id,
                                              "describes", v, Embed(v))),
   cnt |-> acc.cnt + 1]

ResolveMatched(fetched, k, v, key, block_id, acc) ==
  [keywords |-> Append(acc.keywords,
                       KeywordNode(key, key, <<>>,
                                   Embed(Join([i \in DOMAIN fetched |-> fetched[i].relation_desc], NEWLINE)
                                         \o <<NEWLINE>> \o v))),
   relations |-> Append(fetched, RelationEdge(Str(acc.cnt) \o <<"-">> \o block_id, k, block_id,
                                              "describes", v, Embed(v))),
   cnt |-> acc.cnt + 1]

ResolveNew(k, v, block_id, acc) ==
  [keywords |-> Append(acc.keywords, KeywordNode(k, k, <<>>, Embed(v))),
   relations |-> Append(acc.relations, RelationEdge(Str(acc.cnt) \o <<"-">> \o block_id, k, block_id,
                                                    "describes", v, Embed(v))),
   cnt |-> acc.cnt + 1]

ResolveStep(tblR, pair, matched_keywords, block_id, acc) ==
  IF Len(matched_keywords) = 0
  THEN ResolveNew(pair.k, pair.v, block_id, acc)
  ELSE ResolveMatched(get_relation_by_node(tblR, matched_keywords[1].node_id), pair.k, pair.v,
                      matched_keywords[1].node_id, block_id, acc)

RECURSIVE ResolveLoop(_, _, _, _, _)
ResolveLoop(tblR, summary_dict, found, block_id, acc) ==
  IF acc.cnt >= Len(summary_dict) THEN acc
  ELSE ResolveLoop(tblR, summary_dict, found, block_id,
                   ResolveStep(tblR, summary_dict[acc.cnt + 1], found[acc.cnt + 1], block_id, acc))

\* the lists search_keywords can return for each key of the mapping
RECURSIVE FoundFrom(_, _, _)
FoundFrom(tblK, summary_dict, i) ==
  IF i > Len(summary_dict) THEN {<<>>}
  ELSE {<<m>> \o rest : m \in search_keywords(tblK, summary_dict[i].k, LexicalThreshold),
                        rest \in FoundFrom(tblK, summary_dict, i + 1)}

FoundChoices(tblK, summary_dict) == FoundFrom(tblK, summary_dict, 1)

BlockId(t) == <<"msg-">> \o Strftime(t)

MessageLists == {<<<<"hi">>, <<"yo">>>>}

\* `_, summary_dict = generate_summary_dict(llm, text)`: what a run can get back
Summaries == {[none |-> g.none, dict |-> g.dict] : g \in {generate_summary_dict(outs) : outs \in Scripts}}

\* A read returns its answer and leaves the store as it was, so whatever can
\* follow a read can follow the state before it: the model stops at a read.
ReadOps == {"retrieve", "search_keywords", "search_keywords_by_embedding", "get_relation_by_node",
            "get_keyword", "get_message_block"}

Writable == last.op \notin ReadOps

NewBlock(block_id, messages, timestamp) ==
  [MessageBlock(block_id, messages, timestamp, <<>>, <<>>)
     EXCEPT !.embeddings = Embed(Join(messages, MESSAGE_SEPERATOR))]

\* the block written before the extraction is read, the variant the nothing-persisted property rules out
StoreWithBlockAtFailure(st, message_block) ==
  [st EXCEPT !.message_blocks = add_message_block(st.message_blocks, message_block)]

\* summary_dict is None: summary_dict.items() raises before any call to the store
StoreAtExtractionFailure(st, message_block) == st

\* process_messages_and_save_to_memory.  With storage_faults the storage may raise at any insert.
\* last keeps the run's locals: block_id, summary_dict, the search results (found), the
\* keywords and relations lists handed to add_message, and whether block_id was unused (fresh).
Ingest(messages, summary, storage_faults) ==
  /\ Writable
  /\ runs < MaxRuns
  /\ runs' = runs + 1
  /\ IF summary.none
     THEN \E st2 \in {StoreAtExtractionFailure([keywords |-> keywords, message_blocks |-> message_blocks,
                                                relations |-> relations],
                                               NewBlock(BlockId(now), messages, Strftime(now)))} :
            /\ keywords' = st2.keywords
            /\ message_blocks' = st2.message_blocks
            /\ relations' = st2.relations
            /\ last' = [op |-> "ingest", status |-> "AttributeError", block_id |-> BlockId(now),
                        fresh |-> ~HasBlock(message_blocks, BlockId(now)),
                        summary |-> <<>>, found |-> <<>>, keywords |-> <<>>, relations |-> <<>>]
     ELSE \E found \in FoundChoices(keywords, summary.dict) :
          \E res \in {ResolveLoop(relations, summary.dict, found, BlockId(now),
                                  [keywords |-> <<>>, relations |-> <<>>, cnt |-> 0])} :
          \E done \in (IF storage_faults THEN 0..Inserts(res.keywords, res.relations)
                                         ELSE {Inserts(res.keywords, res.relations)}) :
          \E st2 \in {add_message([keywords |-> keywords, message_blocks |-> message_blocks,
                                   relations |-> relations],
                                  NewBlock(BlockId(now), messages, Strftime(now)),
                                  res.keywords, res.relations, done)} :
            /\ keywords' = st2.keywords
            /\ message_blocks' = st2.message_blocks
            /\ relations' = st2.relations
            /\ last' = [op |-> "ingest",
                        status |-> IF done = Inserts(res.keywords, res.relations)
                                   THEN "ok" ELSE "PersistenceFailure",
                        block_id |-> BlockId(now),
                        fresh |-> ~HasBlock(message_blocks, BlockId(now)),
                        summary |-> summary.dict, found |-> found,
                        keywords |-> res.keywords, relations |-> res.relations]
  /\ UNCHANGED now

(***************************************************************************)
(* retrieve_relevant_memory (run.py).  Every list a search can return,     *)
(* every order list(set(...)) can give and every order of equal            *)
(* similarities is a possible run; an outcome records, for one component,  *)
(* the keywords that were matched and the lines it appended.               *)
(***************************************************************************)
RECURSIVE CollectRelations(_, _)
CollectRelations(tblR, ids) ==
  IF ids = <<>> THEN <<>>
  ELSE get_relation_by_node(tblR, Head(ids)) \o CollectRelations(tblR, Tail(ids))

\* [lst[i] for i in indices if 0 <= i < len(lst)]
select_elements(lst, indices) ==
  LET kept == SelectSeq(indices, LAMBDA i : 1 <= i /\ i <= Len(lst))
  IN [j \in DOMAIN kept |-> lst[kept[j]]]

\* the keywords of one component: the lexical matches, else the semantic ones
MatchedKeywords(tblK, k, query_embedding) ==
  IF search_keywords(tblK, k, LexicalThreshold) # {<<>>}
  THEN [raises |-> FALSE, results |-> search_keywords(tblK, k, LexicalThreshold)]
  ELSE search_keywords_by_embedding(tblK, query_embedding, SemanticThresholdNum, SemanticThresholdDen)

\* list(set(relations)), the ranking and ranks[:1]: the lists of selected relations
SelectedRelations(collected, query_embedding) ==
  IF Len(collected) = 0 THEN [raises |-> FALSE, results |-> {<<>>}]
  ELSE IF \E r \in Range(collected) : Len(r.embeddings) # Len(query_embedding)
  THEN [raises |-> TRUE, results |-> {}]
  ELSE [raises |-> FALSE,
        results |-> UNION {{select_elements(o, SubSeq(sr.ranks, 1, Min2(TopK, Len(sr.ranks)))) :
                              sr \in sort_items_by_relevance(query_embedding,
                                                             [i \in DOMAIN o |-> o[i].embeddings])} :
                             o \in Orderings(Range(collected))}]

KeywordIds(kws) == [i \in DOMAIN kws |-> kws[i].node_id]

OutcomesFor(tblR, ids, query_embedding) ==
  LET sel == SelectedRelations(CollectRelations(tblR, ids), query_embedding)
  IN IF sel.raises THEN {[raises |-> TRUE, matched |-> ids, lines |-> <<>>]}
     ELSE {[raises |-> FALSE, matched |-> ids, lines |-> l] : l \in sel.results}

ComponentOutcomes(tblK, tblR, k, v) ==
  LET found == MatchedKeywords(tblK, k, Embed(v))
  IN IF found.raises THEN {[raises |-> TRUE, matched |-> <<>>, lines |-> <<>>]}
     ELSE UNION {OutcomesFor(tblR, KeywordIds(kws), Embed(v)) : kws \in found.results}

Lines(component, rels) ==
  [j \in DOMAIN rels |-> [component |-> component, relation_id |-> rels[j].relation_id,
                          relation_desc |-> rels[j].relation_desc]]

\* the loop over query_dict.items(), from the i-th component on
RECURSIVE RetrieveFrom(_, _, _, _)
RetrieveFrom(tblK, tblR, query_dict, i) ==
  IF i > Len(query_dict) THEN {[raises |-> FALSE, matched |-> <<>>, memory |-> <<>>]}
  ELSE {IF o.raises THEN [raises |-> TRUE, matched |-> <<>>, memory |-> <<>>]
        ELSE IF rest.raises THEN rest
        ELSE [raises |-> FALSE, matched |-> <<o.matched>> \o rest.matched,
              memory |-> Lines(i, o.lines) \o rest.memory] :
          o \in ComponentOutcomes(tblK, tblR, query_dict[i].k, query_dict[i].v),
          rest \in RetrieveFrom(tblK, tblR, query_dict, i + 1)}

\* a retrieval that stores the query as a keyword: the variant the read-only property rules out
RetrieveAndStore(query_summary) ==
  /\ Writable
  /\ last' = [op |-> "retrieve", status |-> "ok", query |-> query_summary.dict,
              matched |-> <<>>, memory |-> <<>>, text |-> <<>>]
  /\ keywords' = add_keyword(keywords, KeywordNode(<<"query">>, <<"query">>, <<>>, <<>>))
  /\ UNCHANGED <<message_blocks, relations, now, runs>>

Retrieve(query_summary) ==
  /\ Writable
  /\ IF query_summary.none
     THEN last' = [op |-> "retrieve", status |-> "AttributeError", query |-> <<>>,
                   matched |-> <<>>, memory |-> <<>>, text |-> <<>>]
     ELSE \E out \in RetrieveFrom(keywords, relations, query_summary.dict, 1) :
            last' = [op |-> "retrieve", status |-> IF out.raises THEN "ValueError" ELSE "ok",
                     query |-> query_summary.dict, matched |-> out.matched, memory |-> out.memory,
                     text |-> Join([j \in DOMAIN out.memory |-> out.memory[j].relation_desc], NEWLINE)]
  /\ UNCHANGED <<keywords, message_blocks, relations, now, runs>>

Tick ==
  /\ Writable
  /\ now < MaxTime
  /\ now' = now + 1
  /\ last' = [op |-> "tick"]
  /\ UNCHANGED <<keywords, message_blocks, relations, runs>>

Init ==
  /\ keywords = <<>>
  /\ message_blocks = <<>>
  /\ relations = <<>>
  /\ now = 0
  /\ runs = 0
  /\ last = [op |-> "init"]

IngestRun == \E messages \in MessageLists, summary \in Summaries : Ingest(messages, summary, FALSE)

IngestRunFaulty == \E messages \in MessageLists, summary \in Summaries : Ingest(messages, summary, TRUE)

Next == IngestRun \/ Tick

Spec == Init /\ [][Next]_vars

RetrieveRun == \E query_summary \in Summaries : Retrieve(query_summary)

NextRetrieve == IngestRun \/ Tick \/ RetrieveRun

SpecRetrieve == Init /\ [][NextRetrieve]_vars

(***************************************************************************)
(* The store's own interface, called directly (as the module's __main__    *)
(* does): ids, labels and embeddings are the caller's.                     *)
(***************************************************************************)
StoreKeywordIds == {<<"kw">> \o Str(i) : i \in 1..MaxKeywords}
StoreLabels == {<<"a", "b">>, <<"a", "b", "c">>}
StoreEmbeddings == {<<>>, Embed(<<"p">>), Embed(<<"q">>), Embed(<<"p", NEWLINE, "q">>)}
KeywordInputs ==
  {KeywordNode(id, label, <<>>, e) : id \in StoreKeywordIds, label \in StoreLabels, e \in StoreEmbeddings}
BlockInputs ==
  {NewBlock(<<"msg1">>, messages, Strftime(0)) : messages \in {<<<<"hi">>>>, <<<<"hi">>, <<"yo">>>>}}
RelationInputs ==
  {RelationEdge(<<"relation1">>, <<"kw">> \o Str(1), <<"msg1">>, "describes", v, Embed(v)) : v \in Descriptions}
Thresholds == {LexicalThreshold, 100}

AddKeyword(keyword) ==
  /\ Writable
  /\ keywords' = add_keyword(keywords, keyword)
  /\ last' = [op |-> "add_keyword", arg |-> keyword]
  /\ UNCHANGED <<message_blocks, relations, now, runs>>

AddMessageBlock(message_block) ==
  /\ Writable
  /\ message_blocks' = add_message_block(message_blocks, message_block)
  /\ last' = [op |-> "add_message_block", arg |-> message_block]
  /\ UNCHANGED <<keywords, relations, now, runs>>

AddRelation(relation) ==
  /\ Writable
  /\ relations' = add_relation(relations, relation)
  /\ last' = [op |-> "add_relation", arg |-> relation]
  /\ UNCHANGED <<keywords, message_blocks, now, runs>>

SearchKeywords(query, threshold) ==
  /\ Writable
  /\ \E result \in search_keywords(keywords, query, threshold) :
       last' = [op |-> "search_keywords", query |-> query, threshold |-> threshold,
                status |-> "ok", result |-> result]
  /\ UNCHANGED <<keywords, message_blocks, relations, now, runs>>

SearchKeywordsByEmbedding(embeddings) ==
  /\ Writable
  /\ \E found \in {search_keywords_by_embedding(keywords, embeddings, SemanticThresholdNum,
                                                SemanticThresholdDen)} :
       IF found.raises
       THEN last' = [op |-> "search_keywords_by_embedding", embeddings |-> embeddings,
                     status |-> "ValueError", result |-> <<>>]
       ELSE \E result \in found.results :
              last' = [op |-> "search_keywords_by_embedding", embeddings |-> embeddings,
                       status |-> "ok", result |-> result]
  /\ UNCHANGED <<keywords, message_blocks, relations, now, runs>>

NextStore ==
  \/ \E keyword \in KeywordInputs : AddKeyword(keyword)
  \/ \E message_block \in BlockInputs : AddMessageBlock(message_block)
  \/ \E relation \in RelationInputs : AddRelation(relation)
  \/ \E query \in {<<>>} \cup StoreLabels, threshold \in Thresholds : SearchKeywords(query, threshold)
  \/ \E embeddings \in StoreEmbeddings : SearchKeywordsByEmbedding(embeddings)

SpecStore == Init /\ [][NextStore]_vars

NextFault == IngestRunFaulty \/ Tick

SpecFault == Init /\ [][NextFault]_vars

(***************************************************************************)
(* The record interface on its own: put and get of each collection, with   *)
(* vectors of every length, message lists of every length and relations    *)
(* between stored and unstored nodes.                                      *)
(***************************************************************************)
RecordVectors == {<<>>, <<0>>, <<12>>, <<4, 1>>, <<10, 0, 7>>}
RecordKeywordInputs == {KeywordNode(<<"kw">> \o Str(1), <<"a", "b">>, <<>>, v) : v \in RecordVectors}
RecordMessages == {<<>>, <<"hi">>, <<"hi", "yo">>}
RecordBlockInputs ==
  {MessageBlock(<<"msg1">>, messages, Strftime(0), <<>>, <<>>) : messages \in SeqsUpTo(RecordMessages, 2)}
RecordRelationIds == {<<"relation">> \o Str(i) : i \in 1..MaxKeywords}
RecordNodeIds == {<<"kw">> \o Str(1), <<"kw">> \o Str(2), <<"msg1">>, <<"nobody">>}
RecordRelationInputs ==
  {RelationEdge(id, source, target, "describes", <<"p">>, Embed(<<"p">>)) :
     id \in RecordRelationIds, source \in {<<"kw">> \o Str(1), <<"kw">> \o Str(2)},
     target \in {<<"msg1">>, <<"kw">> \o Str(1)}}

GetKeyword(keyword_id) ==
  /\ Writable
  /\ \E got \in {get_keyword(keywords, keyword_id)} :
       last' = [op |-> "get_keyword", id |-> keyword_id,
                status |-> IF got.raises THEN "ValueError" ELSE "ok", result |-> got.node]
  /\ UNCHANGED <<keywords, message_blocks, relations, now, runs>>

GetMessageBlock(block_id) ==
  /\ Writable
  /\ \E got \in {get_message_block(message_blocks, block_id)} :
       last' = [op |-> "get_message_block", id |-> block_id,
                status |-> IF got.raises THEN "ValueError" ELSE "ok", result |-> got.node]
  /\ UNCHANGED <<keywords, message_blocks, relations, now, runs>>

GetRelationByNode(node_id) ==
  /\ Writable
  /\ last' = [op |-> "get_relation_by_node", id |-> node_id, status |-> "ok",
              result |-> get_relation_by_node(relations, node_id)]
  /\ UNCHANGED <<keywords, message_blocks, relations, now, runs>>

NextRecords ==
  \/ \E keyword \in RecordKeywordInputs : AddKeyword(keyword)
  \/ \E message_block \in RecordBlockInputs : AddMessageBlock(message_block)
  \/ \E relation \in RecordRelationInputs : AddRelation(relation)
  \/ \E keyword_id \in {<<"kw">> \o Str(1), <<"kw">> \o Str(2)} : GetKeyword(keyword_id)
  \/ \E block_id \in {<<"msg1">>, <<"nobody">>} : GetMessageBlock(block_id)
  \/ \E node_id \in RecordNodeIds : GetRelationByNode(node_id)

SpecRecords == Init /\ [][NextRecords]_vars

(***************************************************************************)
(* Every operation on one store: the puts, add_message through ingestion   *)
(* (the storage may fail), the searches, the gets and retrieval.  The      *)
(* inputs are few: puts that reuse an id, extractions of one pair.         *)
(***************************************************************************)
AllKeywordInputs ==
  {KeywordNode(<<"kw">> \o Str(1), <<"a", "b">>, <<>>, Embed(<<"p">>)),
   KeywordNode(<<"kw">> \o Str(1), <<"a", "b", "c">>, <<>>, Embed(<<"q">>))}
AllBlockInputs == {NewBlock(BlockId(0), <<<<"hi">>>>, Strftime(0))}
AllRelationInputs ==
  {RelationEdge(Str(0) \o <<"-">> \o BlockId(0), <<"kw">> \o Str(1), BlockId(0), "describes", v, Embed(v)) :
     v \in Descriptions}
OnePairSummaries == {summary \in Summaries : Len(summary.dict) <= 1}

NextAll ==
  \/ \E keyword \in AllKeywordInputs : AddKeyword(keyword)
  \/ \E message_block \in AllBlockInputs : AddMessageBlock(message_block)
  \/ \E relation \in AllRelationInputs : AddRelation(relation)
  \/ \E messages \in MessageLists, summary \in OnePairSummaries : Ingest(messages, summary, TRUE)
  \/ Tick
  \/ \E query_summary \in OnePairSummaries : Retrieve(query_summary)
  \/ SearchKeywords(<<"a", "b">>, LexicalThreshold)
  \/ SearchKeywordsByEmbedding(Embed(<<"p">>))
  \/ GetKeyword(<<"kw">> \o Str(1))
  \/ GetMessageBlock(BlockId(0))
  \/ GetRelationByNode(<<"kw">> \o Str(1))

SpecAll == Init /\ [][NextAll]_vars

(***************************************************************************)
(* generate_summary_dict on its own: a script of replies is drawn, then    *)
(* the retry loop runs over it.                                            *)
(***************************************************************************)
ExtractReplies == FailedReplies \cup {[kind |-> "dict", dict |-> <<[k |-> <<"x">>, v |-> v]>>] : v \in Descriptions}
ExtractScripts == [1..max_retry -> ExtractReplies]

InitExtract ==
  /\ keywords = <<>>
  /\ message_blocks = <<>>
  /\ relations = <<>>
  /\ now = 0
  /\ runs = 0
  /\ \E outs \in ExtractScripts : last = [op |-> "script", outs |-> outs]

Extract ==
  /\ last.op = "script"
  /\ \E got \in {generate_summary_dict(last.outs)} :
       last' = [op |-> "generate_summary_dict", outs |-> last.outs,
                none |-> got.none, dict |-> got.dict, calls |-> got.calls]
  /\ UNCHANGED <<keywords, message_blocks, relations, now, runs>>

NextExtract == Extract

SpecExtract == InitExtract /\ [][NextExtract]_vars

(***************************************************************************)
(* sort_items_by_relevance on its own: a query and a non-empty list of     *)
(* candidates of the same length are drawn, then ranked.                   *)
(***************************************************************************)
RankVectors == {<<0, 0>>, <<1, 0>>, <<0, 1>>, <<1, 1>>}
RankItems == SeqsUpTo(RankVectors, MaxPairs) \ {<<>>}

InitRank ==
  /\ keywords = <<>>
  /\ message_blocks = <<>>
  /\ relations = <<>>
  /\ now = 0
  /\ runs = 0
  /\ \E query \in RankVectors, items \in RankItems : last = [op |-> "vectors", query |-> query, items |-> items]

Rank ==
  /\ last.op = "vectors"
  /\ \E sr \in sort_items_by_relevance(last.query, last.items) :
       last' = [op |-> "sort_items_by_relevance", query |-> last.query, items |-> last.items,
                similarities |-> sr.similarities, ranks |-> sr.ranks]
  /\ UNCHANGED <<keywords, message_blocks, relations, now, runs>>

NextRank == Rank

SpecRank == InitRank /\ [][NextRank]_vars

(***************************************************************************)
(* Properties of ingestion.                                                *)
(***************************************************************************)
IngestOk == last.op = "ingest" /\ last.status = "ok"

StoredEmbedding(id) ==
  LET r == CHOOSE r \in DOMAIN keywords : keywords[r].keyword_id = id
  IN KeywordOfRow(keywords[r]).embeddings

\* the relation the loop built for the i-th pair of the run
RelationIdOf(i) == Str(i - 1) \o <<"-">> \o last.block_id

\* C1: after a run that mentions a keyword already stored (its lexical search
\* found a match), the record stored under the matched id holds the embedding
\* the run recomputed for it from the prior descriptions, newline-joined,
\* followed by the new description, and no longer the first-mention one.
C1_EmbeddingRefreshed ==
  IngestOk =>
    \A i \in DOMAIN last.found :
      Len(last.found[i]) > 0 =>
        /\ last.keywords[i].node_id = last.found[i][1].node_id
        /\ HasKeyword(keywords, last.keywords[i].node_id)
        /\ StoredEmbedding(last.keywords[i].node_id)
             \in {last.keywords[j].embeddings :
                    j \in {m \in DOMAIN last.keywords : last.keywords[m].node_id = last.keywords[i].node_id}}

\* C2: after a successful run with n extracted pairs whose block id is new,
\* the store holds for every pair a "describes" relation to the new block
\* with that pair's description, n relations to that block in total, whatever
\* the mix and order of new and already-stored keywords.
C2_EveryPairRelated ==
  (IngestOk /\ last.fresh) =>
    /\ \A i \in DOMAIN last.summary :
         \E r \in DOMAIN relations :
           /\ relations[r].relation_type = "describes"
           /\ relations[r].target = last.block_id
           /\ relations[r].relation_desc = last.summary[i].v
    /\ Cardinality({r \in DOMAIN relations :
                      relations[r].relation_type = "describes" /\ relations[r].target = last.block_id})
         = Len(last.summary)

\* C3: add_keyword, add_message_block and add_relation are insert-if-absent:
\* a call with an id already stored leaves the whole store unchanged, and a
\* second identical call after any call changes nothing more.
C3_PutInsertIfAbsent ==
  [][/\ (last'.op = "add_keyword" /\ HasKeyword(keywords, last'.arg.node_id)) => store' = store
     /\ (last'.op = "add_message_block" /\ HasBlock(message_blocks, last'.arg.node_id)) => store' = store
     /\ (last'.op = "add_relation" /\ HasRelation(relations, last'.arg.relation_id)) => store' = store
     /\ last'.op = "add_keyword" => add_keyword(keywords', last'.arg) = keywords'
     /\ last'.op = "add_message_block" => add_message_block(message_blocks', last'.arg) = message_blocks'
     /\ last'.op = "add_relation" => add_relation(relations', last'.arg) = relations']_vars

\* a keyword was put under an id already stored with other fields, and the first record is still there
C3_Witness ==
  /\ last.op = "add_keyword"
  /\ \E r \in DOMAIN keywords :
       /\ keywords[r].keyword_id = last.arg.node_id
       /\ keywords[r] # KeywordRow(last.arg)

\* the reply scripts in which no call yields a usable mapping
FailedScripts == [1..max_retry -> FailedReplies]

\* C4: when every extraction attempt fails to yield a mapping the extraction
\* returns None, the run ends with the error raised on it, and the store is
\* exactly as it was before the run.
C4_FailedExtractionPersistsNothing ==
  [][/\ \A outs \in FailedScripts : generate_summary_dict(outs).none
     /\ \A outs \in Scripts : generate_summary_dict(outs).none => outs \in FailedScripts
     /\ (last'.op = "ingest" /\ last'.summary = <<>>) => last'.status = "AttributeError"
     /\ (last'.op = "ingest" /\ last'.status = "AttributeError") => store' = store]_vars

\* a run failed on its extraction over a store that already holds a batch
C4_Witness ==
  /\ last.op = "ingest"
  /\ last.status = "AttributeError"
  /\ Len(message_blocks) > 0
  /\ Len(keywords) > 0
  /\ Len(relations) > 0

\* C5: a run in which an insert of add_message fails leaves no record of the
\* batch: the store is as it was before the run.
C5_AllOrNothing ==
  [][(last'.op = "ingest" /\ last'.status = "PersistenceFailure") => store' = store]_vars

(***************************************************************************)
(* Properties of the two searches.                                         *)
(***************************************************************************)
SearchedByEmbedding == last.op = "search_keywords_by_embedding" /\ last.status = "ok" /\ Len(keywords) > 0

Returned(id) == \E j \in DOMAIN last.result : last.result[j].node_id = id

\* C6: for a non-empty query embedding over a non-empty store the semantic
\* search returns a stored keyword exactly when the cosine similarity of that
\* keyword's own embedding to the query is at least the threshold.
C6_SemanticMatchesExactlyAboveThreshold ==
  SearchedByEmbedding =>
    \A r \in DOMAIN keywords :
      Returned(keywords[r].keyword_id)
        <=> SimAtLeast(Similarity(last.embeddings, _deserialize_embeddings(keywords[r].embeddings)),
                       SemanticThresholdNum, SemanticThresholdDen)

\* C7: the list the semantic search returns is in descending order of cosine
\* similarity to the query: an earlier keyword is at least as similar as a later one.
C7_SemanticResultDescending ==
  SearchedByEmbedding =>
    \A i, j \in DOMAIN last.result :
      i < j => SimGE(Similarity(last.embeddings, last.result[i].embeddings),
                     Similarity(last.embeddings, last.result[j].embeddings))

\* C8: for a non-empty query the lexical search returns exactly the stored
\* records whose label scores at least the threshold against the query; with
\* threshold 100 every returned record's label equals the query.
C8_LexicalMatchesExactlyAboveThreshold ==
  (last.op = "search_keywords" /\ last.query # <<>>) =>
    /\ \A r \in DOMAIN keywords :
         Returned(keywords[r].keyword_id) <=> ScoreAtLeast(last.query, keywords[r].keyword, last.threshold)
    /\ last.threshold = 100 => \A j \in DOMAIN last.result : last.result[j].keyword = last.query

(***************************************************************************)
(* Properties of the relations a run builds and of retrieval.              *)
(***************************************************************************)
\* C9: the relation a run builds for its i-th pair has as source the id the
\* resolver gave that pair (the matched keyword's id, else the extracted
\* text) and as target the new block id; once persisted its source is the id
\* of a stored keyword and get_relation_by_node of that id returns it.
C9_RelationSourceIsCanonicalId ==
  (IngestOk /\ last.fresh) =>
    \A i \in DOMAIN last.summary :
      \A j \in DOMAIN last.relations :
        last.relations[j].relation_id = RelationIdOf(i) =>
          /\ last.relations[j].source = last.keywords[i].node_id
          /\ last.relations[j].target = last.block_id
          /\ HasKeyword(keywords, last.relations[j].source)
          /\ \E m \in DOMAIN get_relation_by_node(relations, last.keywords[i].node_id) :
               get_relation_by_node(relations, last.keywords[i].node_id)[m].relation_id = RelationIdOf(i)

\* C10: a retrieval emits at most one line per component, the lines follow
\* the components' order in the mapping, a component whose matched keywords
\* have no relation emits none, and the text is those descriptions joined.
C10_OneLinePerComponentInOrder ==
  (last.op = "retrieve" /\ last.status = "ok") =>
    /\ \A i, j \in DOMAIN last.memory : i < j => last.memory[i].component < last.memory[j].component
    /\ \A j \in DOMAIN last.memory : last.memory[j].component \in DOMAIN last.query
    /\ \A c \in DOMAIN last.query :
         Len(CollectRelations(relations, last.matched[c])) = 0
           => \A j \in DOMAIN last.memory : last.memory[j].component # c
    /\ last.text = Join([j \in DOMAIN last.memory |-> last.memory[j].relation_desc], NEWLINE)

\* a retrieval over two components: one matched a keyword that has several
\* relations and emitted one line, the other matched a keyword without relations
C10_Witness ==
  /\ last.op = "retrieve"
  /\ last.status = "ok"
  /\ Len(last.query) = 2
  /\ Len(last.memory) = 1
  /\ \E c \in DOMAIN last.query :
       /\ Len(last.matched[c]) > 0
       /\ Len(CollectRelations(relations, last.matched[c])) = 0
  /\ \E c \in DOMAIN last.query :
       /\ Cardinality(Range(CollectRelations(relations, last.matched[c]))) > 1
       /\ last.memory[1].component = c

\* the relations attached to the keywords matched for component c of the last retrieval
Attached(c) == CollectRelations(relations, last.matched[c])

\* the similarity of a relation to the subquery of component c
SubquerySimilarity(c, relation) == Similarity(Embed(last.query[c].v), relation.embeddings)

\* the similarities of a list of relations to the subquery of component c
SubquerySimilarities(c, rels) == [m \in DOMAIN rels |-> SubquerySimilarity(c, rels[m])]

\* C11: a component whose matched keywords have an attached relation emits
\* exactly one line; it is the description of one of the attached relations,
\* and no attached relation is more similar to the subquery embedding than it.
C11_LineIsMostSimilarRelation ==
  (last.op = "retrieve" /\ last.status = "ok") =>
    \A c \in DOMAIN last.query :
      \A att \in {Attached(c)} :
        Len(att) > 0 =>
          \A sims \in {SubquerySimilarities(c, att)} :
            /\ Cardinality({j \in DOMAIN last.memory : last.memory[j].component = c}) = 1
            /\ \A j \in DOMAIN last.memory :
                 last.memory[j].component = c =>
                   \E m \in DOMAIN att :
                     /\ att[m].relation_id = last.memory[j].relation_id
                     /\ att[m].relation_desc = last.memory[j].relation_desc
                     /\ \A n \in DOMAIN att : SimGE(sims[m], sims[n])

\* a component emitted the best of several attached relations, one of them strictly less similar
C11_Witness ==
  /\ last.op = "retrieve"
  /\ last.status = "ok"
  /\ \E c \in DOMAIN last.query :
       \E att \in {Attached(c)} :
         \E sims \in {SubquerySimilarities(c, att)} :
           /\ \E j \in DOMAIN last.memory : last.memory[j].component = c
           /\ \E m, n \in DOMAIN att : ~SimGE(sims[m], sims[n])

(***************************************************************************)
(* Invariants of the store.                                                *)
(***************************************************************************)
\* C12: every successful ingestion run adds exactly one message block: its
\* block id is the id of no block stored before the run, whatever the time
\* since the previous run.
C12_OneNewBlockPerRun ==
  [][(last'.op = "ingest" /\ last'.status = "ok") =>
       /\ ~HasBlock(message_blocks, last'.block_id)
       /\ Len(message_blocks') = Len(message_blocks) + 1
       /\ HasBlock(message_blocks', last'.block_id)]_vars

\* C13: after any sequence of ingestion runs from the empty store no two
\* stored keywords carry the same label, and every stored keyword has its
\* label as id.
C13_OneKeywordPerLabel ==
  /\ \A i, j \in DOMAIN keywords : keywords[i].keyword = keywords[j].keyword => i = j
  /\ \A i \in DOMAIN keywords : keywords[i].keyword_id = keywords[i].keyword

\* a run resolved a pair to a stored keyword with another label and minted a keyword for another pair
C13_Witness ==
  /\ IngestOk
  /\ Len(keywords) >= 2
  /\ \E i \in DOMAIN last.found :
       /\ Len(last.found[i]) > 0
       /\ last.found[i][1].keyword # last.summary[i].k
  /\ \E i \in DOMAIN last.found :
       /\ Len(last.found[i]) = 0
       /\ HasKeyword(keywords, last.summary[i].k)

\* C15: get_relation_by_node(x) returns every stored relation with x as
\* source or as target, each once and with its stored fields, and no other
\* relation, whether or not x is the id of a stored node.
C15_RelationsOfNodeExactly ==
  last.op = "get_relation_by_node" =>
    /\ \A r \in DOMAIN relations :
         (relations[r].source = last.id \/ relations[r].target = last.id)
           <=> \E j \in DOMAIN last.result : last.result[j] = RelationOfRow(relations[r])
    /\ \A j \in DOMAIN last.result :
         \E r \in DOMAIN relations : last.result[j] = RelationOfRow(relations[r])
    /\ \A i, j \in DOMAIN last.result : last.result[i].relation_id = last.result[j].relation_id => i = j

\* the relations of an id that is no stored node: one found by its target, another one left out
C15_Witness ==
  /\ last.op = "get_relation_by_node"
  /\ ~HasKeyword(keywords, last.id)
  /\ ~HasBlock(message_blocks, last.id)
  /\ \E j \in DOMAIN last.result : last.result[j].target = last.id /\ last.result[j].source # last.id
  /\ \E r \in DOMAIN relations : relations[r].source # last.id /\ relations[r].target # last.id

\* C16: a message block stored with a message list m, none of whose messages
\* contains the separator, is read back by get_message_block with messages
\* equal to m, for every length of m, zero and one included.
C16_MessagesRoundTrip ==
  (last.op = "add_message_block"
     /\ \E r \in DOMAIN message_blocks : message_blocks[r] = BlockRow(last.arg))
    => /\ ~get_message_block(message_blocks, last.arg.node_id).raises
       /\ get_message_block(message_blocks, last.arg.node_id).node.messages = last.arg.messages

\* C17: decoding the encoding of a vector gives the vector back, for length
\* 0, 1 and more; the empty vector encodes to the empty text and the empty
\* text decodes to the empty vector; a keyword stored with a vector is read
\* back with it.
C17_EmbeddingsRoundTrip ==
  /\ _serialize_embeddings(<<>>) = <<>>
  /\ _deserialize_embeddings(<<>>) = <<>>
  /\ (last.op = "add_keyword" /\ \E r \in DOMAIN keywords : keywords[r] = KeywordRow(last.arg))
       => /\ _deserialize_embeddings(_serialize_embeddings(last.arg.embeddings)) = last.arg.embeddings
          /\ ~get_keyword(keywords, last.arg.node_id).raises
          /\ get_keyword(keywords, last.arg.node_id).node.embeddings = last.arg.embeddings
  /\ (last.op = "add_relation" /\ \E r \in DOMAIN relations : relations[r] = RelationRow(last.arg))
       => \A j \in DOMAIN get_relation_by_node(relations, last.arg.source) :
            get_relation_by_node(relations, last.arg.source)[j].relation_id = last.arg.relation_id
              => get_relation_by_node(relations, last.arg.source)[j].embeddings = last.arg.embeddings

\* a keyword stored with a vector of three numbers, one of several digits and one zero
C17_Witness ==
  /\ last.op = "add_keyword"
  /\ \E r \in DOMAIN keywords : keywords[r] = KeywordRow(last.arg)
  /\ Len(last.arg.embeddings) = 3
  /\ \E i \in DOMAIN last.arg.embeddings : last.arg.embeddings[i] >= 10
  /\ \E i \in DOMAIN last.arg.embeddings : last.arg.embeddings[i] = 0

\* C14: the store is append-only: across every operation each stored
\* relation and each stored message block stays stored with identical
\* fields, and each stored keyword stays stored with the same id and label.
C14_AppendOnly ==
  [][/\ \A r \in DOMAIN relations : \E j \in DOMAIN relations' : relations'[j] = relations[r]
     /\ \A b \in DOMAIN message_blocks : \E j \in DOMAIN message_blocks' : message_blocks'[j] = message_blocks[b]
     /\ \A k \in DOMAIN keywords :
          \E j \in DOMAIN keywords' :
            /\ keywords'[j].keyword_id = keywords[k].keyword_id
            /\ keywords'[j].keyword = keywords[k].keyword]_vars

\* a run reused a block id and matched a stored keyword, over a store filled by puts and runs
C14_Witness ==
  /\ IngestOk
  /\ ~last.fresh
  /\ \E i \in DOMAIN last.found : Len(last.found[i]) > 0 /\ last.found[i][1].node_id # last.found[i][1].keyword
  /\ Len(keywords) >= 2
  /\ Len(relations) >= 2
  /\ \E r \in DOMAIN relations : relations[r].relation_id = RelationIdOf(1) /\ relations[r].relation_desc # last.summary[1].v

(***************************************************************************)
(* Properties of the extraction retry and of the ranking.                  *)
(***************************************************************************)
\* the replies that parse into a mapping
ParsedReplies(outs) == {i \in DOMAIN outs : ~parse_to_dict(outs[i]).none}

\* C18: generate_summary_dict calls the model at most max_retry times; it
\* stops at the first reply that parses into a mapping and returns that
\* mapping; when no reply parses it returns None after max_retry calls.
C18_ExtractionBounded ==
  last.op = "generate_summary_dict" =>
    /\ last.calls <= max_retry
    /\ ParsedReplies(last.outs) = {} => (last.none /\ last.calls = max_retry)
    /\ ParsedReplies(last.outs) # {} =>
         \E i \in ParsedReplies(last.outs) :
           /\ \A j \in ParsedReplies(last.outs) : i <= j
           /\ ~last.none
           /\ last.calls = i
           /\ last.dict = parse_to_dict(last.outs[i]).dict

\* C19: sort_items_by_relevance gives every candidate a well-defined
\* similarity, also when the query or a candidate has norm zero, and its
\* ranking is a permutation of the candidates' indices in descending order.
C19_RankingWellDefined ==
  last.op = "sort_items_by_relevance" =>
    /\ DOMAIN last.similarities = DOMAIN last.items
    /\ \A i \in DOMAIN last.similarities : ~last.similarities[i].nan
    /\ DOMAIN last.ranks = DOMAIN last.items
    /\ Range(last.ranks) = DOMAIN last.items
    /\ \A i, j \in DOMAIN last.ranks :
         i < j => SimGE(last.similarities[last.ranks[i]], last.similarities[last.ranks[j]])

SemanticSearched == last.op = "search_keywords_by_embedding"

C22_GetOrNotFound ==
  /\ last.op = "get_keyword" =>
       IF HasKeyword(keywords, last.id)
       THEN /\ last.status = "ok"
            /\ \E r \in DOMAIN keywords :
                 /\ keywords[r].keyword_id = last.id
                 /\ last.result.node_id = last.id
                 /\ last.result.keyword = keywords[r].keyword
                 /\ last.result.content = keywords[r].content
                 /\ _serialize_embeddings(last.result.embeddings) = keywords[r].embeddings
       ELSE last.status = "ValueError" /\ last.result = <<>>
  /\ last.op = "get_message_block" =>
       IF HasBlock(message_blocks, last.id)
       THEN /\ last.status = "ok"
            /\ \E r \in DOMAIN message_blocks :
                 /\ message_blocks[r].block_id = last.id
                 /\ last.result.node_id = last.id
                 /\ last.result.content = message_blocks[r].messages
                 /\ last.result.timestamp = message_blocks[r].timestamp
                 /\ last.result.title = message_blocks[r].title
       ELSE last.status = "ValueError" /\ last.result = <<>>

\* a keyword id that is not stored was asked of a store that holds another keyword
C22_Witness ==
  /\ last.op = "get_keyword"
  /\ last.status = "ValueError"
  /\ Len(keywords) > 0
  /\ ~HasKeyword(keywords, last.id)

RetrievalOps == {"retrieve", "search_keywords", "search_keywords_by_embedding", "get_relation_by_node"}

\* C23: retrieve_relevant_memory and the reads it is made of leave the three
\* collections unchanged, whether the retrieval succeeds or fails.
C23_RetrievalReadOnly ==
  [][last'.op \in RetrievalOps => store' = store]_vars

\* a retrieval emitted a line over a store that holds keywords, blocks and relations
C23_Witness ==
  /\ last.op = "retrieve"
  /\ last.status = "ok"
  /\ Len(last.memory) > 0
  /\ Len(keywords) > 0
  /\ Len(message_blocks) > 0
  /\ Len(relations) > 0

(***************************************************************************)
(* Properties of keyword resolution.                                       *)
(***************************************************************************)
\* C25: after any sequence of ingestion runs from the empty store no two
\* stored keywords with different labels match each other lexically at the
\* resolver's threshold.
C25_NoTwoMatchingLabels ==
  \A i, j \in DOMAIN keywords :
    keywords[i].keyword # keywords[j].keyword
      => ~ScoreAtLeast(keywords[i].keyword, keywords[j].keyword, LexicalThreshold)

\* C26: when the search of a pair's text returned a keyword whose label is
\* that text, the run takes that keyword's id as canonical, in whatever
\* order the search returned its results.
C26_ExactMatchIsCanonical ==
  IngestOk =>
    \A i \in DOMAIN last.found :
      \A m \in DOMAIN last.found[i] :
        last.found[i][m].keyword = last.summary[i].k
          => last.keywords[i].node_id = last.found[i][m].node_id

\* the script in which every reply is the empty mapping
EmptyMappingScript == [i \in 1..max_retry |-> [kind |-> "dict", dict |-> <<>>]]

\* C27: a reply that parses to the empty mapping is retried like an
\* unparseable one; when every reply is the empty mapping the extraction
\* returns None and the run aborts before anything is stored; a successful
\* run has at least one pair and builds a relation to its block, and every
\* stored block is the target of a stored relation.
C27_EmptyMappingIsFailure ==
  /\ generate_summary_dict(EmptyMappingScript).none
  /\ generate_summary_dict(EmptyMappingScript).calls = max_retry
  /\ \A reply \in DictReplies :
       /\ ~generate_summary_dict([i \in 1..max_retry |-> IF i = 1 THEN EmptyMappingScript[1] ELSE reply]).none
       /\ generate_summary_dict([i \in 1..max_retry |-> IF i = 1 THEN EmptyMappingScript[1] ELSE reply]).calls = 2
  /\ (last.op = "ingest" /\ last.summary = <<>>) =>
       /\ last.status = "AttributeError"
       /\ last.fresh => ~HasBlock(message_blocks, last.block_id)
  /\ IngestOk =>
       /\ Len(last.summary) >= 1
       /\ \E j \in DOMAIN last.relations : last.relations[j].target = last.block_id
  /\ \A b \in DOMAIN message_blocks :
       \E r \in DOMAIN relations : relations[r].target = message_blocks[b].block_id

\* a run whose extraction gave no mapping aborted with a block id that is not stored, after a stored batch
C27_Witness ==
  /\ last.op = "ingest"
  /\ last.status = "AttributeError"
  /\ last.fresh
  /\ ~HasBlock(message_blocks, last.block_id)
  /\ Len(message_blocks) > 0

(***************************************************************************)
(* Interleaved ingestion runs.  Two processes run                          *)
(* process_messages_and_save_to_memory on the same database file.  Every   *)
(* call of the store opens its own connection and commits on its own, so   *)
(* the runs interleave between calls: a search, a fetch of relations and   *)
(* each insert of add_message is one step.  last.procs holds the locals of *)
(* each run: its position (pc), block, mapping, the search results so far  *)
(* (found), the loop's locals (acc), the number of inserts committed       *)
(* (done) and, for each keyword insert committed, whether the id was       *)
(* absent when it committed (first).                                       *)
(***************************************************************************)
Procs == IF last.op = "concurrent" THEN DOMAIN last.procs ELSE {}

InitConcurrent ==
  /\ keywords = <<>>
  /\ message_blocks = <<>>
  /\ relations = <<>>
  /\ now = 0
  /\ runs = 0
  /\ last = [op |-> "concurrent", procs |-> <<>>]

\* run.py:101-105: block id from the clock, the block, the extraction
Begin(messages, summary) ==
  /\ runs < MaxRuns
  /\ runs' = runs + 1
  /\ last' = [last EXCEPT !.procs =
                Append(@, [pc |-> IF summary.none THEN "AttributeError" ELSE "search",
                           block_id |-> BlockId(now),
                           message_block |-> NewBlock(BlockId(now), messages, Strftime(now)),
                           summary |-> summary.dict,
                           found |-> <<>>,
                           acc |-> [keywords |-> <<>>, relations |-> <<>>, cnt |-> 0],
                           done |-> 0,
                           first |-> <<>>])]
  /\ UNCHANGED <<keywords, message_blocks, relations, now>>

AfterPair(pr, acc2) == IF acc2.cnt >= Len(pr.summary) THEN "persist" ELSE "search"

\* run.py:110-114: search_keywords(k); with no match the keyword is minted without another read
Search(p) ==
  /\ last.procs[p].pc = "search"
  /\ \E pr \in {last.procs[p]} :
     \E matched_keywords \in search_keywords(keywords, pr.summary[pr.acc.cnt + 1].k, LexicalThreshold) :
       IF Len(matched_keywords) = 0
       THEN \E acc2 \in {ResolveNew(pr.summary[pr.acc.cnt + 1].k, pr.summary[pr.acc.cnt + 1].v,
                                    pr.block_id, pr.acc)} :
              last' = [last EXCEPT !.procs[p] =
                         [pr EXCEPT !.found = Append(@, matched_keywords), !.acc = acc2,
                                    !.pc = AfterPair(pr, acc2)]]
       ELSE last' = [last EXCEPT !.procs[p] =
                       [pr EXCEPT !.found = Append(@, matched_keywords), !.pc = "fetch"]]
  /\ UNCHANGED <<keywords, message_blocks, relations, now, runs>>

\* run.py:116-120: get_relation_by_node of the first match, read after the search returned
Fetch(p) ==
  /\ last.procs[p].pc = "fetch"
  /\ \E pr \in {last.procs[p]} :
     \E acc2 \in {ResolveStep(relations, pr.summary[pr.acc.cnt + 1], pr.found[pr.acc.cnt + 1],
                              pr.block_id, pr.acc)} :
       last' = [last EXCEPT !.procs[p] = [pr EXCEPT !.acc = acc2, !.pc = AfterPair(pr, acc2)]]
  /\ UNCHANGED <<keywords, message_blocks, relations, now, runs>>

\* add_message, one insert: the block, then each keyword, then each relation
Persist(p) ==
  /\ last.procs[p].pc = "persist"
  /\ \E pr \in {last.procs[p]} :
     \E n \in {pr.done + 1} :
       /\ message_blocks' = IF n = 1 THEN add_message_block(message_blocks, pr.message_block)
                            ELSE message_blocks
       /\ keywords' = IF n > 1 /\ n - 1 <= Len(pr.acc.keywords)
                      THEN add_keyword(keywords, pr.acc.keywords[n - 1])
                      ELSE keywords
       /\ relations' = IF n - 1 > Len(pr.acc.keywords)
                       THEN link_messages(relations, pr.acc.relations[n - 1 - Len(pr.acc.keywords)])
                       ELSE relations
       /\ last' = [last EXCEPT !.procs[p] =
                     [pr EXCEPT !.done = n,
                                !.first = IF n > 1 /\ n - 1 <= Len(pr.acc.keywords)
                                          THEN Append(@, ~HasKeyword(keywords, pr.acc.keywords[n - 1].node_id))
                                          ELSE @,
                                !.pc = IF n = Inserts(pr.acc.keywords, pr.acc.relations)
                                       THEN "ok" ELSE "persist"]]
  /\ UNCHANGED <<now, runs>>

\* the clock moves while runs are under way
TickConcurrent ==
  /\ now < MaxTime
  /\ now' = now + 1
  /\ UNCHANGED <<keywords, message_blocks, relations, runs, last>>

BeginRun == \E messages \in MessageLists, summary \in Summaries : Begin(messages, summary)

SearchStep == \E p \in Procs : Search(p)

FetchStep == \E p \in Procs : Fetch(p)

PersistStep == \E p \in Procs : Persist(p)

NextConcurrent == BeginRun \/ SearchStep \/ FetchStep \/ PersistStep \/ TickConcurrent

SpecConcurrent == InitConcurrent /\ [][NextConcurrent]_vars

\* the stored row of a keyword id
StoredKeyword(id) == keywords[CHOOSE i \in DOMAIN keywords : keywords[i].keyword_id = id]

\* C24: when interleaved runs insert a keyword under the same id, the stored
\* row is the one of the insert that committed first; a later insert of the
\* id changes nothing and raises nothing (the run goes on to its end), so
\* the embedding it computed is not stored.
C24_FirstCommitWins ==
  \A p \in Procs :
    \A pr \in {last.procs[p]} :
      /\ pr.pc \in {"AttributeError", "search", "fetch", "persist", "ok"}
      /\ pr.pc = "ok" <=> (pr.done > 0 /\ pr.done = Inserts(pr.acc.keywords, pr.acc.relations))
      /\ \A i \in DOMAIN pr.first :
           /\ HasKeyword(keywords, pr.acc.keywords[i].node_id)
           /\ pr.first[i] => StoredKeyword(pr.acc.keywords[i].node_id) = KeywordRow(pr.acc.keywords[i])
           /\ ~pr.first[i] =>
                \/ \E q \in Procs : \E j \in DOMAIN last.procs[q].first :
                     /\ <<q, j>> # <<p, i>>
                     /\ last.procs[q].first[j]
                     /\ last.procs[q].acc.keywords[j].node_id = pr.acc.keywords[i].node_id
                     /\ StoredKeyword(pr.acc.keywords[i].node_id) = KeywordRow(last.procs[q].acc.keywords[j])

\* both runs searched before either stored the keyword, both minted it with
\* different embeddings, both finished: the second commit was ignored
C24_Witness ==
  /\ last.op = "concurrent"
  /\ Len(last.procs) = 2
  /\ \A p \in 1..2 : last.procs[p].pc = "ok" /\ last.procs[p].found[1] = <<>>
  /\ last.procs[1].acc.keywords[1].node_id = last.procs[2].acc.keywords[1].node_id
  /\ last.procs[1].acc.keywords[1].embeddings # last.procs[2].acc.keywords[1].embeddings
  /\ ~last.procs[2].first[1]
  /\ StoredKeyword(last.procs[1].acc.keywords[1].node_id).embeddings
       # _serialize_embeddings(last.procs[2].acc.keywords[1].embeddings)

====
